---- MODULE Spec2Model ----
(***************************************************************************)
(* Model of bot.py: a Telegram bot that keeps a watchlist of domains in    *)
(* domains.json, checks each domain against the Indiwtf API in a periodic  *)
(* job and on /checknow, and edits the list with /start, /add, /remove.    *)
(*                                                                         *)
(* Strings are sequences of one-character strings, so that lower(),        *)
(* replace(), strip() and sorted() are computed character by character.    *)
(* A message text is modelled after text.split(): the command and the      *)
(* sequence of its whitespace-free argument tokens.                        *)
(***************************************************************************)
EXTENDS Integers, Sequences, FiniteSets, TLC

\* ------------------------------------------------------------------ bounds
\* number of pieces a token of the normalisation specification is built of
MaxPieces == 4
\* number of commands the dispatcher handles in one behaviour
MaxCmds == 3
\* number of periodic_check calls that can be in flight at once
MaxCycles == 2

\* ------------------------------------------------------------------ strings
\* code points of the characters used, as Python's str comparison orders them
Ord(c) ==
  CASE c = "/" -> 47 [] c = ":" -> 58
    [] c = "A" -> 65 [] c = "B" -> 66 [] c = "H" -> 72 [] c = "P" -> 80
    [] c = "S" -> 83 [] c = "T" -> 84
    [] c = "a" -> 97 [] c = "b" -> 98 [] c = "h" -> 104 [] c = "p" -> 112
    [] c = "s" -> 115 [] c = "t" -> 116

\* str.lower() on one character
LowerChar(c) ==
  CASE c = "A" -> "a" [] c = "B" -> "b" [] c = "H" -> "h" [] c = "P" -> "p"
    [] c = "S" -> "s" [] c = "T" -> "t" [] OTHER -> c

\* str.lower()
Lower(s) == [i \in 1..Len(s) |-> LowerChar(s[i])]

\* s.startswith(p)
StartsWith(s, p) == Len(s) >= Len(p) /\ SubSeq(s, 1, Len(p)) = p

\* s.replace(p, ""): every non-overlapping occurrence of p, scanning from the left
RECURSIVE RemoveAll(_, _)
RemoveAll(s, p) ==
  IF Len(s) < Len(p) THEN s
  ELSE IF StartsWith(s, p) THEN RemoveAll(SubSeq(s, Len(p) + 1, Len(s)), p)
  ELSE <<Head(s)>> \o RemoveAll(Tail(s), p)

\* s.lstrip("/")
RECURSIVE LStrip(_)
LStrip(s) == IF s # <<>> /\ Head(s) = "/" THEN LStrip(Tail(s)) ELSE s

\* s.rstrip("/")
RECURSIVE RStrip(_)
RStrip(s) ==
  IF s # <<>> /\ s[Len(s)] = "/" THEN RStrip(SubSeq(s, 1, Len(s) - 1)) ELSE s

\* s.strip("/")
Strip(s) == RStrip(LStrip(s))

HttpsScheme == <<"h", "t", "t", "p", "s", ":", "/", "/">>
HttpScheme == <<"h", "t", "t", "p", ":", "/", "/">>

\* d.lower().replace("https://", "").replace("http://", "").strip("/")
Normalize(d) == Strip(RemoveAll(RemoveAll(Lower(d), HttpsScheme), HttpScheme))

\* get_domains_from_message on the argument tokens of a message: tokens of
\* split() are never empty or blank, so the filter `if d.strip()` keeps all
get_domains_from_message(tokens) == [i \in 1..Len(tokens) |-> Normalize(tokens[i])]

\* Python's < on str: lexicographic by code point, a proper prefix is smaller
RECURSIVE StrLess(_, _)
StrLess(s, t) ==
  IF t = <<>> THEN FALSE
  ELSE IF s = <<>> THEN TRUE
  ELSE IF Head(s) = Head(t) THEN StrLess(Tail(s), Tail(t))
  ELSE Ord(Head(s)) < Ord(Head(t))

Range(q) == {q[i] : i \in 1..Len(q)}

\* sorted(list(S)) for a set of strings
RECURSIVE Sorted(_)
Sorted(S) ==
  IF S = {} THEN <<>>
  ELSE LET m == CHOOSE x \in S : \A y \in S \ {x} : StrLess(x, y)
       IN <<m>> \o Sorted(S \ {m})

IsSorted(q) == \A i \in 1..(Len(q) - 1) : StrLess(q[i], q[i + 1])

\* ------------------------------------------------------------------ the store
\* data.get("chat_id") of a record that was never activated
None == "None"

\* DATA_FILE does not exist
NoFile == [kind |-> "none", chat_id |-> None, domains |-> <<>>]

\* the mutant of load_data: the record read at start-up, when there was no
\* file, is kept and reused instead of reading the file again
load_data_cached(f) == [chat_id |-> None, domains |-> <<>>]

\* load_data: the parsed record of a file that holds one; the default record
\* when there is no file, or the file cannot be read or is not JSON (the
\* except branch)
load_data(f) ==
  IF f.kind # "json" THEN [chat_id |-> None, domains |-> <<>>]
  ELSE [chat_id |-> f.chat_id, domains |-> f.domains]

\* load_data raises: the file parses to a value that is no dict, data.setdefault
\* is an AttributeError, which `except (json.JSONDecodeError, IOError)` lets through
load_raises(f) == f.kind = "nonobject"

\* a domains.json that is not JSON (garbage, or cut short), one that is JSON
\* but no object (a list, null, ...), one that cannot be opened for reading
CorruptFile == [kind |-> "notjson", chat_id |-> None, domains |-> <<>>]
NonObjectFile == [kind |-> "nonobject", chat_id |-> None, domains |-> <<>>]
UnreadableFile == [kind |-> "unreadable", chat_id |-> None, domains |-> <<>>]

\* the mutant of save_data: the domains are written in the order they have
save_data_unsorted(data) ==
  [kind |-> "json", chat_id |-> data.chat_id, domains |-> data.domains]

\* the mutant of save_data: sorted(..., reverse=True)
save_data_reversed(data) ==
  LET up == Sorted(Range(data.domains))
  IN [kind |-> "json", chat_id |-> data.chat_id,
      domains |-> [i \in 1..Len(up) |-> up[Len(up) + 1 - i]]]

\* save_data: the record is written with its domains deduplicated and sorted
save_data(data) ==
  [kind |-> "json", chat_id |-> data.chat_id, domains |-> Sorted(Range(data.domains))]

\* ------------------------------------------------------------------ the remote API
\* What requests.get can give for one domain: no response at all (timeout or
\* connection error: http = "none"), or a response with a success or a failure
\* status whose body is not JSON, a JSON object (with or without an "error"
\* key, with a "status" value) or JSON that is no object (a list, null, ...).
Responses ==
  { [http |-> "none", body |-> "none", err |-> FALSE, status |-> "absent"],
    [http |-> "ok", body |-> "object", err |-> FALSE, status |-> "allowed"],
    [http |-> "ok", body |-> "object", err |-> FALSE, status |-> "blocked"],
    [http |-> "ok", body |-> "notjson", err |-> FALSE, status |-> "absent"],
    [http |-> "ok", body |-> "nonobject", err |-> FALSE, status |-> "absent"],
    [http |-> "fail", body |-> "object", err |-> TRUE, status |-> "absent"],
    [http |-> "fail", body |-> "object", err |-> FALSE, status |-> "absent"],
    [http |-> "fail", body |-> "notjson", err |-> FALSE, status |-> "absent"] }

\* the remote call failed: timeout, non-success HTTP status or malformed body
RemoteFailed(resp) == resp.http # "ok" \/ resp.body # "object"

\* {"error": str(e)}
ErrorResult == [shape |-> "dict", error |-> TRUE, status |-> "absent"]

\* response.json(): raises on a body that is not JSON, else the parsed value
ResponseJson(resp) ==
  IF resp.body = "object"
  THEN [shape |-> "dict", error |-> resp.err, status |-> resp.status]
  ELSE [shape |-> "other", error |-> FALSE, status |-> "absent"]

\* check_domain_status with INDIWTF_TOKEN set: response.json() when the call
\* and raise_for_status succeed; in the except branch response.json() again
\* (a NameError when there is no response), and {"error": str(e)} if that raises
check_domain_status(resp) ==
  IF resp.http = "none" \/ resp.body = "notjson" THEN ErrorResult
  ELSE ResponseJson(resp)

\* check_domain_status from its first line: without INDIWTF_TOKEN the error
\* result at once and no request; called tells whether requests.get ran
check_domain_status_token(token, resp) ==
  IF ~token THEN [result |-> ErrorResult, called |-> FALSE]
  ELSE [result |-> check_domain_status(resp), called |-> TRUE]

\* format_status_message: the line, or "raise" where `"error" in result` or
\* result.get raises because the result is no dict
format_status_message(result, domain) ==
  IF result.shape # "dict" THEN [kind |-> "raise", domain |-> domain]
  ELSE IF result.error THEN [kind |-> "error", domain |-> domain]
  ELSE IF result.status = "blocked" THEN [kind |-> "blocked", domain |-> domain]
  ELSE [kind |-> "ok", domain |-> domain]

\* ------------------------------------------------------------------ inputs
Chats == {"chat1", "chat2"}

\* argument tokens as the users type them
TokA == <<"a">>
TokB == <<"H", "T", "T", "P", "S", ":", "/", "/", "B", "/">>
TokNested == <<"h", "t", "h", "t", "t", "p", ":", "/", "/", "t", "p", ":", "/", "/", "a">>
TokSlash == <<"/">>

\* the argument lists of /add, /remove and /check
ArgLists == {<<>>, <<TokA>>, <<TokB>>, <<TokB, TokA, TokB>>, <<TokNested>>, <<TokSlash>>}

\* ------------------------------------------------------------------ state
VARIABLES
  file,     \* the content of domains.json
  h,        \* the update dispatcher's handler: the command being handled
  prev,     \* the command handled before the current one
  cyc,      \* the periodic_check calls in flight, by slot
  want,     \* what the commands acknowledged so far add up to, applied in order
  nCmds,    \* commands dispatched so far
  nx, ny, nz, npc, \* the normalisation specification: input, outputs, position
  env,      \* the environment of the process: which tokens are set
  app,      \* main(): "boot" before it ran, then "running" or "exited"
  disk,     \* whether writes to domains.json can fail
  oracle,   \* a mocked remote API: the response it gives for each domain
  sfile0, sdata, spc,  \* the store specification: the file at first, the record
            \* load_data gave, position
  rq        \* the remote-check specification: one check_domain_status call
            \* and the formatting of what it returned

vars == <<file, h, prev, cyc, want, nCmds, nx, ny, nz, npc, env, app, disk, oracle, sfile0, sdata, spc, rq>>
botVars == <<file, h, prev, cyc, want, nCmds>>
normVars == <<nx, ny, nz, npc>>
storeVars == <<sfile0, sdata, spc>>
envVars == <<env, app, disk, oracle, storeVars, rq>>

Slots == 1..MaxCycles

NoReply == [kind |-> "none", parts |-> <<>>, lines |-> <<>>]
NoMsg == [kind |-> "none", chat |-> None, lines |-> <<>>]

IdleHandler ==
  [pc |-> "idle", kind |-> "none", cands |-> <<>>, before |-> NoFile,
   reply |-> NoReply, nReplies |-> 0, cyc |-> 0, retx |-> FALSE, wfail |-> FALSE]

FreeSlot ==
  [pc |-> "free", origin |-> "none", chat_id |-> None, domains |-> <<>>, i |-> 0,
   lines |-> <<>>, failed |-> <<>>, nCalls |-> 0, nSent |-> 0, sentAt |-> 0, msg |-> NoMsg,
   start |-> [chat_id |-> None, domains |-> {}]]

NoPrev == [kind |-> "none", cands |-> <<>>]

\* ------------------------------------------------------------------ the check cycle
\* the mutant of periodic_check: no early exit for an empty watchlist, the
\* loop runs zero times and the report is sent with its header alone
periodic_check_no_empty_exit(f, origin) ==
  LET data == load_data(f)
  IN IF data.chat_id = None
     THEN [FreeSlot EXCEPT !.pc = "done", !.origin = origin]
     ELSE IF data.domains = <<>>
     THEN [FreeSlot EXCEPT !.pc = "sending", !.origin = origin,
                           !.chat_id = data.chat_id, !.nSent = 1,
                           !.msg = [kind |-> "report", chat |-> data.chat_id, lines |-> <<>>]]
     ELSE [FreeSlot EXCEPT !.pc = "checking", !.origin = origin,
                           !.chat_id = data.chat_id, !.domains = data.domains,
                           !.i = 1, !.nCalls = 1]

RECURSIVE Reverse(_)
Reverse(q) == IF q = <<>> THEN <<>> ELSE Append(Reverse(Tail(q)), Head(q))

\* the mutant of periodic_check: /checknow runs a copy of the loop that walks
\* the watchlist from its end
periodic_check_manual_copy(f, origin) ==
  LET data == load_data(f)
  IN IF data.chat_id = None
     THEN [FreeSlot EXCEPT !.pc = "done", !.origin = origin]
     ELSE IF data.domains = <<>>
     THEN [FreeSlot EXCEPT !.pc = "sending", !.origin = origin,
                           !.chat_id = data.chat_id, !.nSent = 1,
                           !.msg = [kind |-> "empty", chat |-> data.chat_id, lines |-> <<>>]]
     ELSE [FreeSlot EXCEPT !.pc = "checking", !.origin = origin,
                           !.chat_id = data.chat_id,
                           !.domains = IF origin = "checknow" THEN Reverse(data.domains)
                                       ELSE data.domains,
                           !.i = 1, !.nCalls = 1]

\* periodic_check up to its first await: load_data, the two early exits, and
\* the first remote call of the loop
periodic_check(f, origin) ==
  LET data == load_data(f)
  IN IF data.chat_id = None
     THEN [FreeSlot EXCEPT !.pc = "done", !.origin = origin]
     ELSE IF data.domains = <<>>
     THEN [FreeSlot EXCEPT !.pc = "sending", !.origin = origin,
                           !.chat_id = data.chat_id, !.nSent = 1,
                           !.msg = [kind |-> "empty", chat |-> data.chat_id, lines |-> <<>>]]
     ELSE [FreeSlot EXCEPT !.pc = "checking", !.origin = origin,
                           !.chat_id = data.chat_id, !.domains = data.domains,
                           !.i = 1, !.nCalls = 1]

InFlight(c) == cyc[c].pc \in {"checking", "sleeping", "sending"}

\* `await check_domain_status(domain)` resumes with the response: the line is
\* formatted and appended, then `await asyncio.sleep(1)`; an exception of
\* format_status_message leaves periodic_check
RemoteReturns(c, resp) ==
  /\ cyc[c].pc = "checking"
  /\ LET r == cyc[c]
         line == format_status_message(check_domain_status_token(env.indiwtf, resp).result,
                                       r.domains[r.i])
     IN cyc' = [cyc EXCEPT ![c] =
          IF line.kind = "raise"
          THEN [r EXCEPT !.pc = "raised"]
          ELSE [r EXCEPT !.pc = "sleeping", !.lines = Append(@, line),
                         !.failed = Append(@, RemoteFailed(resp))]]
  /\ UNCHANGED <<file, h, prev, want, nCmds, normVars, envVars>>

\* the mutant of SleepDone: the loop reads domains.json again for each domain
SleepDoneReload(c) ==
  /\ cyc[c].pc = "sleeping"
  /\ LET r == [cyc[c] EXCEPT !.chat_id = load_data(file).chat_id,
                             !.domains = load_data(file).domains]
     IN cyc' = [cyc EXCEPT ![c] =
          IF r.i < Len(r.domains)
          THEN [r EXCEPT !.pc = "checking", !.i = @ + 1, !.nCalls = @ + 1]
          ELSE [r EXCEPT !.pc = "sending", !.nSent = @ + 1, !.sentAt = Len(r.lines),
                         !.msg = [kind |-> "report", chat |-> r.chat_id, lines |-> r.lines]]]
  /\ UNCHANGED <<file, h, prev, want, nCmds, normVars, envVars>>

\* the pacing sleep is over: the next domain's call, or after the last domain
\* the one send_message of the report
SleepDone(c) ==
  /\ cyc[c].pc = "sleeping"
  /\ LET r == cyc[c]
     IN cyc' = [cyc EXCEPT ![c] =
          IF r.i < Len(r.domains)
          THEN [r EXCEPT !.pc = "checking", !.i = @ + 1, !.nCalls = @ + 1]
          ELSE [r EXCEPT !.pc = "sending", !.nSent = @ + 1, !.sentAt = Len(r.lines),
                         !.msg = [kind |-> "report", chat |-> r.chat_id, lines |-> r.lines]]]
  /\ UNCHANGED <<file, h, prev, want, nCmds, normVars, envVars>>

\* `await context.bot.send_message(...)` resumes: periodic_check is over
SendDone(c) ==
  /\ cyc[c].pc = "sending"
  /\ cyc' = [cyc EXCEPT ![c].pc = "done"]
  /\ UNCHANGED <<file, h, prev, want, nCmds, normVars, envVars>>

\* periodic_check has returned or raised: its caller goes on. The job's run
\* ends; check_now_command, which awaited it, ends and the dispatcher takes
\* the next update
CycleReturn(c) ==
  /\ cyc[c].pc \in {"done", "raised"}
  /\ cyc' = [cyc EXCEPT ![c] = FreeSlot]
  /\ IF h.pc = "in_cycle" /\ h.cyc = c
     THEN h' = IdleHandler /\ prev' = [kind |-> h.kind, cands |-> h.cands]
     ELSE UNCHANGED <<h, prev>>
  /\ UNCHANGED <<file, want, nCmds, normVars, envVars>>

\* job_queue.run_repeating(periodic_check, ...): the job fires; a run of the
\* job that is still going keeps the next one from starting
Tick(c) ==
  /\ app = "running"
  /\ \A d \in Slots : cyc[d].origin # "job"
  /\ cyc[c].pc = "free"
  /\ \A d \in Slots : d < c => cyc[d].pc # "free"
  /\ cyc' = [cyc EXCEPT ![c] = [periodic_check(file, "job") EXCEPT !.start = want]]
  /\ UNCHANGED <<file, h, prev, want, nCmds, normVars, envVars>>

\* ------------------------------------------------------------------ the commands
Part(name, n) == [part |-> name, n |-> n]

\* one line of a Bulk Report, written only when its list is not empty
PartIf(name, list) == IF list # <<>> THEN <<Part(name, Len(list))>> ELSE <<>>

Usage == [kind |-> "usage", parts |-> <<>>, lines |-> <<>>]

\* the mutant of AddResult: the candidates are not compared with the current
\* domains, every one of them counts as new
AddResultNoPartition(f, cands) ==
  LET data == load_data(f)
      newly_added == Sorted(Range(cands))
  IN [file |-> save_data([data EXCEPT !.domains = @ \o newly_added]),
      saved |-> TRUE,
      reply |-> [kind |-> "add", parts |-> PartIf("added", newly_added), lines |-> <<>>]]

\* add_command past the usage check: load, partition the candidates against
\* the current domains, extend and save when something is new, build the reply
AddResult(f, cands) ==
  LET data == load_data(f)
      current_domains == Range(data.domains)
      domains_to_add == Range(cands)
      newly_added == Sorted(domains_to_add \ current_domains)
      already_exist == Sorted(domains_to_add \cap current_domains)
  IN [file |-> IF newly_added # <<>>
               THEN save_data([data EXCEPT !.domains = @ \o newly_added])
               ELSE f,
      saved |-> newly_added # <<>>,
      reply |-> [kind |-> "add",
                 parts |-> PartIf("added", newly_added) \o PartIf("skipped", already_exist),
                 lines |-> <<>>]]

\* the mutant of Without: only the first match is dropped, as list.remove does
RECURSIVE WithoutFirst(_, _)
WithoutFirst(domains, removed) ==
  IF domains = <<>> THEN <<>>
  ELSE IF Head(domains) \in removed THEN Tail(domains)
  ELSE <<Head(domains)>> \o WithoutFirst(Tail(domains), removed)

\* [d for d in domains if d not in removed]
RECURSIVE Without(_, _)
Without(domains, removed) ==
  IF domains = <<>> THEN <<>>
  ELSE IF Head(domains) \in removed THEN Without(Tail(domains), removed)
  ELSE <<Head(domains)>> \o Without(Tail(domains), removed)

\* remove_command past the usage check
RemoveResult(f, cands) ==
  LET data == load_data(f)
      current_domains == Range(data.domains)
      domains_to_remove == Range(cands)
      successfully_removed == Sorted(domains_to_remove \cap current_domains)
      not_found == Sorted(domains_to_remove \ current_domains)
  IN [file |-> IF successfully_removed # <<>>
               THEN save_data([data EXCEPT !.domains = Without(@, Range(successfully_removed))])
               ELSE f,
      saved |-> successfully_removed # <<>>,
      reply |-> [kind |-> "remove",
                 parts |-> PartIf("removed", successfully_removed) \o PartIf("notfound", not_found),
                 lines |-> <<>>]]

\* how the write of save_data can end: done; open(DATA_FILE, "w") raises
\* IOError; the file is opened, which empties it, and the write or the flush
\* raises IOError (disk full). save_data logs either failure and returns.
WriteOutcomes(saved) ==
  IF saved /\ disk = "faulty" THEN {"ok", "open_fails", "write_fails"} ELSE {"ok"}

\* domains.json after save_data was to write new over f
WriteFile(f, new, w) ==
  IF w = "ok" THEN new
  ELSE IF w = "open_fails" THEN f
  ELSE CorruptFile

\* the dispatcher hands the next update to its handler only when the handler
\* of the one before has returned
CanDispatch == app = "running" /\ h.pc = "idle" /\ nCmds < MaxCmds

\* a handler up to its last reply_text
Replying(kind, cands, reply) ==
  [IdleHandler EXCEPT !.pc = "replying", !.kind = kind, !.cands = cands,
                      !.before = file, !.reply = reply, !.nReplies = 1]

\* the mutant of start_command: a target chat that is set is kept
start_command_first_only(chat) ==
  /\ CanDispatch
  /\ file' = save_data([load_data(file) EXCEPT !.chat_id = IF @ = None THEN chat ELSE @])
  /\ h' = Replying("start", <<>>, [kind |-> "welcome", parts |-> <<>>, lines |-> <<>>])
  /\ want' = [want EXCEPT !.chat_id = chat]
  /\ nCmds' = nCmds + 1
  /\ UNCHANGED <<prev, cyc, normVars, envVars>>

start_command(chat) ==
  /\ CanDispatch
  /\ \E w \in WriteOutcomes(TRUE) :
       /\ file' = WriteFile(file, save_data([load_data(file) EXCEPT !.chat_id = chat]), w)
       /\ h' = [Replying("start", <<>>, [kind |-> "welcome", parts |-> <<>>, lines |-> <<>>])
                  EXCEPT !.wfail = w # "ok"]
  /\ want' = [want EXCEPT !.chat_id = chat]
  /\ nCmds' = nCmds + 1
  /\ UNCHANGED <<prev, cyc, normVars, envVars>>

\* the mutant of add_command: without arguments it returns with no reply
add_command_silent(tokens) ==
  /\ CanDispatch
  /\ LET domains_to_process == get_domains_from_message(tokens)
         res == AddResult(file, domains_to_process)
     IN IF domains_to_process = <<>>
        THEN /\ h' = IdleHandler
             /\ prev' = [kind |-> "add", cands |-> <<>>]
             /\ UNCHANGED <<file, want>>
        ELSE /\ file' = res.file
             /\ h' = Replying("add", domains_to_process, res.reply)
             /\ want' = [want EXCEPT !.domains = @ \cup Range(domains_to_process)]
             /\ UNCHANGED prev
  /\ nCmds' = nCmds + 1
  /\ UNCHANGED <<cyc, normVars, envVars>>

add_command(tokens) ==
  /\ CanDispatch
  /\ LET domains_to_process == get_domains_from_message(tokens)
         res == AddResult(file, domains_to_process)
     IN IF domains_to_process = <<>>
        THEN /\ h' = Replying("add", <<>>, Usage)
             /\ UNCHANGED <<file, want>>
        ELSE /\ \E w \in WriteOutcomes(res.saved) :
                  /\ file' = WriteFile(file, res.file, w)
                  /\ h' = [Replying("add", domains_to_process, res.reply) EXCEPT
                             !.retx = prev.kind = "add" /\ Range(prev.cands) = Range(domains_to_process),
                             !.wfail = w # "ok"]
             /\ want' = [want EXCEPT !.domains = @ \cup Range(domains_to_process)]
  /\ nCmds' = nCmds + 1
  /\ UNCHANGED <<prev, cyc, normVars, envVars>>

remove_command(tokens) ==
  /\ CanDispatch
  /\ LET domains_to_process == get_domains_from_message(tokens)
         res == RemoveResult(file, domains_to_process)
     IN IF domains_to_process = <<>>
        THEN /\ h' = Replying("remove", <<>>, Usage)
             /\ UNCHANGED <<file, want>>
        ELSE /\ \E w \in WriteOutcomes(res.saved) :
                  /\ file' = WriteFile(file, res.file, w)
                  /\ h' = [Replying("remove", domains_to_process, res.reply)
                             EXCEPT !.wfail = w # "ok"]
             /\ want' = [want EXCEPT !.domains = @ \ Range(domains_to_process)]
  /\ nCmds' = nCmds + 1
  /\ UNCHANGED <<prev, cyc, normVars, envVars>>

list_command ==
  /\ CanDispatch
  /\ LET domains == load_data(file).domains
     IN h' = Replying("list", <<>>,
               IF domains = <<>>
               THEN [kind |-> "empty", parts |-> <<>>, lines |-> <<>>]
               ELSE [kind |-> "list", parts |-> <<>>, lines |-> domains])
  /\ nCmds' = nCmds + 1
  /\ UNCHANGED <<file, prev, cyc, want, normVars, envVars>>

\* the last `await update.message.reply_text(...)` of a handler resumes: the
\* handler returns
HandlerReturn ==
  /\ h.pc = "replying"
  /\ h' = IdleHandler
  /\ prev' = [kind |-> h.kind, cands |-> h.cands]
  /\ UNCHANGED <<file, cyc, want, nCmds, normVars, envVars>>

\* check_command: the usage reply, or the "Checking ..." reply before the call
check_command(tokens) ==
  /\ CanDispatch
  /\ LET domains_to_check == get_domains_from_message(tokens)
     IN h' = IF domains_to_check = <<>>
             THEN Replying("check", <<>>, Usage)
             ELSE [Replying("check", domains_to_check,
                            [kind |-> "checking", parts |-> <<>>,
                             lines |-> <<domains_to_check[1]>>])
                     EXCEPT !.pc = "ack"]
  /\ nCmds' = nCmds + 1
  /\ UNCHANGED <<file, prev, cyc, want, normVars, envVars>>

\* check_command: the "Checking ..." reply is out, check_domain_status is awaited
CheckAcked ==
  /\ h.pc = "ack" /\ h.kind = "check"
  /\ h' = [h EXCEPT !.pc = "check_wait"]
  /\ UNCHANGED <<file, prev, cyc, want, nCmds, normVars, envVars>>

\* check_command: the result is formatted and replied; an exception of
\* format_status_message ends the handler without a second reply
CheckReturns(resp) ==
  /\ h.pc = "check_wait"
  /\ LET line == format_status_message(check_domain_status_token(env.indiwtf, resp).result,
                                       h.cands[1])
     IN IF line.kind = "raise"
        THEN h' = IdleHandler /\ prev' = [kind |-> h.kind, cands |-> h.cands]
        ELSE /\ h' = [h EXCEPT !.pc = "replying", !.nReplies = @ + 1,
                               !.reply = [kind |-> "status", parts |-> <<>>, lines |-> <<line>>]]
             /\ UNCHANGED prev
  /\ UNCHANGED <<file, cyc, want, nCmds, normVars, envVars>>

\* check_now_command: the "On-demand check initiated" reply
check_now_command ==
  /\ CanDispatch
  /\ h' = [Replying("checknow", <<>>, [kind |-> "initiated", parts |-> <<>>, lines |-> <<>>])
             EXCEPT !.pc = "ack"]
  /\ nCmds' = nCmds + 1
  /\ UNCHANGED <<file, prev, cyc, want, normVars, envVars>>

\* the mutant of AwaitCycle: the cycle is started as a task of its own and
\* the handler returns at once
SpawnCycle(hrec, c) == IdleHandler

\* `await periodic_check(context)`: the handler is suspended until the cycle
\* it started is over
AwaitCycle(hrec, c) == [hrec EXCEPT !.pc = "in_cycle", !.cyc = c]

\* check_now_command: the reply is out, periodic_check is called
CheckNowAcked(c) ==
  /\ h.pc = "ack" /\ h.kind = "checknow"
  /\ cyc[c].pc = "free"
  /\ \A d \in Slots : d < c => cyc[d].pc # "free"
  /\ cyc' = [cyc EXCEPT ![c] = [periodic_check(file, "checknow") EXCEPT !.start = want]]
  /\ h' = AwaitCycle(h, c)
  /\ UNCHANGED <<file, prev, want, nCmds, normVars, envVars>>

\* ------------------------------------------------------------------ the bot
InitBot ==
  /\ file = NoFile
  /\ h = IdleHandler
  /\ prev = NoPrev
  /\ cyc = [c \in Slots |-> FreeSlot]
  /\ want = [chat_id |-> None, domains |-> {}]
  /\ nCmds = 0

\* no normalisation run
NormOff == nx = <<>> /\ ny = <<>> /\ nz = <<>> /\ npc = "off"

\* no run of the remote-check specification
RemoteOff ==
  [pc |-> "off", token |-> TRUE, domain |-> <<>>,
   resp |-> [http |-> "none", body |-> "none", err |-> FALSE, status |-> "absent"],
   result |-> ErrorResult, called |-> FALSE,
   line |-> [kind |-> "none", domain |-> <<>>]]

\* no run of the store specification
StoreOff ==
  /\ sfile0 = NoFile
  /\ sdata = [raised |-> FALSE, chat_id |-> None, domains |-> <<>>]
  /\ spc = "off"

\* both tokens are set, main() has started the application, writes to
\* domains.json succeed, the remote API is not mocked
InitEnv ==
  /\ env = [telegram |-> TRUE, indiwtf |-> TRUE]
  /\ app = "running"
  /\ disk = "healthy"
  /\ oracle = <<>>
  /\ StoreOff
  /\ rq = RemoteOff

Init == InitBot /\ NormOff /\ InitEnv

Next ==
  \/ \E chat \in Chats : start_command(chat)
  \/ \E tokens \in ArgLists : add_command(tokens)
  \/ \E tokens \in ArgLists : remove_command(tokens)
  \/ list_command
  \/ \E tokens \in ArgLists : check_command(tokens)
  \/ check_now_command
  \/ HandlerReturn
  \/ CheckAcked
  \/ \E resp \in Responses : CheckReturns(resp)
  \/ \E c \in Slots : CheckNowAcked(c)
  \/ \E c \in Slots : Tick(c)
  \/ \E c \in Slots, resp \in Responses : RemoteReturns(c, resp)
  \/ \E c \in Slots : SleepDone(c)
  \/ \E c \in Slots : SendDone(c)
  \/ \E c \in Slots : CycleReturn(c)

Spec == Init /\ [][Next]_vars

\* ------------------------------------------------------------------ start-up
\* the mutant of main: only TELEGRAM_TOKEN is required
main_telegram_only ==
  /\ app = "boot"
  /\ app' = IF env.telegram THEN "running" ELSE "exited"
  /\ UNCHANGED <<botVars, normVars, env, disk, oracle, storeVars, rq>>

\* main(): returns at once when a token is missing; else registers the
\* handlers and the job and runs the application
main ==
  /\ app = "boot"
  /\ app' = IF env.telegram /\ env.indiwtf THEN "running" ELSE "exited"
  /\ UNCHANGED <<botVars, normVars, env, disk, oracle, storeVars, rq>>

\* the process is started with each of the two tokens set or not
InitBoot ==
  /\ InitBot /\ NormOff /\ StoreOff
  /\ env \in [telegram : BOOLEAN, indiwtf : BOOLEAN]
  /\ app = "boot"
  /\ disk = "healthy"
  /\ oracle = <<>>
  /\ rq = RemoteOff

NextBoot == main \/ Next

SpecBoot == InitBoot /\ [][NextBoot]_vars

\* the bot on a disk where a write can fail
InitDisk ==
  /\ InitBot /\ NormOff /\ StoreOff
  /\ env = [telegram |-> TRUE, indiwtf |-> TRUE] /\ app = "running"
  /\ disk = "faulty"
  /\ oracle = <<>>
  /\ rq = RemoteOff

SpecDisk == InitDisk /\ [][Next]_vars

\* ------------------------------------------------------------------ the two entry points
\* The job and /checknow over one persisted record and one mocked remote API.
PairDomains == {<<"a">>, <<"b">>}

\* no file, or a file as save_data writes it
PairFiles ==
  {NoFile} \cup
  { save_data([chat_id |-> c, domains |-> Sorted(S)]) :
      c \in Chats \cup {None}, S \in SUBSET PairDomains }

InitPair ==
  /\ file \in PairFiles
  /\ h = IdleHandler
  /\ prev = NoPrev
  /\ cyc = [c \in Slots |-> FreeSlot]
  /\ want = [chat_id |-> load_data(file).chat_id, domains |-> Range(load_data(file).domains)]
  /\ nCmds = 0
  /\ NormOff
  /\ env = [telegram |-> TRUE, indiwtf |-> TRUE]
  /\ app = "running"
  /\ disk = "healthy"
  /\ oracle \in [PairDomains -> Responses]
  /\ StoreOff
  /\ rq = RemoteOff

\* the remote call of a cycle resumes with the mocked response of its domain
MockedRemoteReturns(c) ==
  /\ cyc[c].pc = "checking"
  /\ RemoteReturns(c, oracle[cyc[c].domains[cyc[c].i]])

NextPair ==
  \/ check_now_command
  \/ \E c \in Slots : CheckNowAcked(c)
  \/ \E c \in Slots : Tick(c)
  \/ \E c \in Slots : MockedRemoteReturns(c)
  \/ \E c \in Slots : SleepDone(c)
  \/ \E c \in Slots : SendDone(c)
  \/ \E c \in Slots : CycleReturn(c)

SpecPair == InitPair /\ [][NextPair]_vars

\* ------------------------------------------------------------------ the store alone
\* load_data, then save_data of what it gave, on every domains.json.
StoreDomains == {<<>>, <<"a">>, <<"b">>, <<"h", "t", "t", "p", ":", "/", "/", "a">>}

\* the files an earlier save_data has written: a JSON object with the chat and
\* the domains in order, none twice
SavedFiles ==
  { [kind |-> "json", chat_id |-> c, domains |-> Sorted(S)] :
      c \in Chats \cup {None}, S \in SUBSET StoreDomains }

StoreFiles == {NoFile, CorruptFile, NonObjectFile, UnreadableFile} \cup SavedFiles

InitStore ==
  /\ file \in StoreFiles
  /\ sfile0 = file
  /\ sdata = [raised |-> FALSE, chat_id |-> None, domains |-> <<>>]
  /\ spc = "start"
  /\ h = IdleHandler /\ prev = NoPrev /\ cyc = [c \in Slots |-> FreeSlot]
  /\ want = [chat_id |-> None, domains |-> {}] /\ nCmds = 0
  /\ NormOff
  /\ env = [telegram |-> TRUE, indiwtf |-> TRUE] /\ app = "running"
  /\ disk = "healthy" /\ oracle = <<>>
  /\ rq = RemoteOff

\* data = load_data()
StoreLoad ==
  /\ spc = "start"
  /\ sdata' = [raised |-> load_raises(file), chat_id |-> load_data(file).chat_id,
               domains |-> load_data(file).domains]
  /\ spc' = "loaded"
  /\ UNCHANGED <<sfile0, botVars, normVars, env, app, disk, oracle, rq>>

\* save_data(data)
StoreSave ==
  /\ spc = "loaded" /\ ~sdata.raised
  /\ file' = save_data([chat_id |-> sdata.chat_id, domains |-> sdata.domains])
  /\ spc' = "saved"
  /\ UNCHANGED <<sfile0, sdata, h, prev, cyc, want, nCmds, normVars, env, app, disk, oracle, rq>>

NextStore == StoreLoad \/ StoreSave

SpecStore == InitStore /\ [][NextStore]_vars

\* ------------------------------------------------------------------ one remote check alone
\* check_domain_status on every response of the remote API, with and without
\* the token, then format_status_message on what it returned.
RemoteDomains == {<<>>, <<"a">>, <<"b">>}

InitRemote ==
  /\ rq \in { [RemoteOff EXCEPT !.pc = "call", !.token = t, !.domain = d, !.resp = r] :
                t \in BOOLEAN, d \in RemoteDomains, r \in Responses }
  /\ InitBot /\ NormOff /\ StoreOff
  /\ env = [telegram |-> TRUE, indiwtf |-> rq.token] /\ app = "running"
  /\ disk = "healthy" /\ oracle = <<>>

\* result = await check_domain_status(domain)
RemoteCall ==
  /\ rq.pc = "call"
  /\ LET out == check_domain_status_token(rq.token, rq.resp)
     IN rq' = [rq EXCEPT !.pc = "returned", !.result = out.result, !.called = out.called]
  /\ UNCHANGED <<botVars, normVars, env, app, disk, oracle, storeVars>>

\* format_status_message(result, domain)
RemoteFormat ==
  /\ rq.pc = "returned"
  /\ rq' = [rq EXCEPT !.pc = "formatted",
                      !.line = format_status_message(rq.result, rq.domain)]
  /\ UNCHANGED <<botVars, normVars, env, app, disk, oracle, storeVars>>

NextRemote == RemoteCall \/ RemoteFormat

SpecRemote == InitRemote /\ [][NextRemote]_vars

\* ------------------------------------------------------------------ normalisation alone
NormPieces ==
  { HttpScheme, HttpsScheme, <<"h", "t">>, <<"t", "p", ":", "/", "/">>, <<"/">>,
    <<"a">>, <<"B">>, <<"H", "T", "T", "P", "S", ":", "/", "/">> }

\* the tokens built of at most n pieces
RECURSIVE PieceTokens(_)
PieceTokens(n) ==
  IF n = 0 THEN {<<>>}
  ELSE LET shorter == PieceTokens(n - 1)
       IN shorter \cup {p \o t : p \in NormPieces, t \in shorter}

\* a whitespace-free token, as split() yields it: never empty
NormTokens == PieceTokens(MaxPieces) \ {<<>>}

InitNorm == InitBot /\ InitEnv /\ nx \in NormTokens /\ ny = <<>> /\ nz = <<>> /\ npc = "input"

NormOnce ==
  /\ npc = "input"
  /\ ny' = Normalize(nx)
  /\ npc' = "once"
  /\ UNCHANGED <<nx, nz, botVars, envVars>>

NormTwice ==
  /\ npc = "once"
  /\ nz' = Normalize(ny)
  /\ npc' = "twice"
  /\ UNCHANGED <<nx, ny, botVars, envVars>>

NextNorm == NormOnce \/ NormTwice

SpecNorm == InitNorm /\ [][NextNorm]_vars

\* the bot with every enabled step eventually taken: the event loop runs every
\* task that is ready
FairSpec == Spec /\ WF_vars(Next)

\* the bot with every reply_text that was awaited eventually resuming: the
\* event loop runs the handler again when the gateway has answered
FairReplySpec ==
  /\ Spec
  /\ WF_vars(HandlerReturn)
  /\ WF_vars(CheckAcked)
  /\ WF_vars(\E c \in Slots : CheckNowAcked(c))

\* ------------------------------------------------------------------ claims
Stored == load_data(file)

\* the persisted record is not what the commands handled so far add up to: the
\* effect of a command that was acknowledged is missing, or one that was
\* removed is back
LostUpdate ==
  \/ Range(Stored.domains) # want.domains
  \/ Stored.chat_id # want.chat_id

CyclesInFlight(origin) == {c \in Slots : InFlight(c) /\ cyc[c].origin = origin}

\* C2 as stated: at most one check cycle is in flight at any time, a scheduled
\* run and a /checknow run never overlap
C2_OneCycleInFlight == Cardinality({c \in Slots : InFlight(c)}) <= 1

\* C2 amended: at most one /checknow cycle is in flight at any time, and while
\* it is, its handler is suspended in it; a scheduled run and a /checknow run
\* can overlap (C2_Witness)
C2_OneCheckNowCycle ==
  /\ Cardinality(CyclesInFlight("checknow")) <= 1
  /\ \A c \in CyclesInFlight("checknow") : h.pc = "in_cycle" /\ h.cyc = c

\* a scheduled run and a /checknow run, both waiting for a remote check
C2_Witness ==
  \E c, d \in Slots :
    /\ cyc[c].origin = "job" /\ cyc[c].pc = "checking"
    /\ cyc[d].origin = "checknow" /\ cyc[d].pc = "checking"

\* a periodic_check call that found a target chat and a non-empty watchlist
ConfiguredNonEmpty(c) ==
  cyc[c].pc # "free" /\ cyc[c].chat_id # None /\ cyc[c].domains # <<>>

\* the domains of the lines of a message, in order
LineDomains(lines) == [k \in 1..Len(lines) |-> lines[k].domain]

\* C3: a cycle over a non-empty watchlist with a target sends nothing while its
\* checks are going on, and when it is over it has sent exactly one message,
\* after the check of every domain, with one line per domain in sorted order
C3_OneReportAfterAllChecks ==
  \A c \in Slots : ConfiguredNonEmpty(c) =>
    LET r == cyc[c]
    IN /\ IsSorted(r.domains)
       /\ r.pc \in {"checking", "sleeping"} => r.nSent = 0
       /\ r.pc \in {"sending", "done"} =>
            /\ r.nSent = 1 /\ r.sentAt = Len(r.domains)
            /\ r.msg.kind = "report" /\ LineDomains(r.msg.lines) = r.domains
       /\ r.pc \in {"done", "raised"} => r.nSent = 1

\* C4: a failed remote call gives its domain an error line, and the cycle goes
\* on: it never aborts, and its report has a line for every domain
C4_FailureIsLocal ==
  \A c \in Slots : ConfiguredNonEmpty(c) =>
    LET r == cyc[c]
    IN /\ r.pc # "raised"
       /\ \A k \in 1..Len(r.lines) : r.failed[k] => r.lines[k].kind = "error"
       /\ r.pc \in {"sending", "done"} => Len(r.msg.lines) = Len(r.domains)

\* C5: the persisted domains are strictly increasing in Python's string order
\* (sorted, no duplicates), and /list shows the watchlist in exactly that order
C5_SortedNoDuplicates ==
  /\ IsSorted(Stored.domains)
  /\ h.pc = "replying" /\ h.kind = "list" =>
       /\ h.reply.lines = Sorted(want.domains)
       /\ h.reply.lines = Stored.domains
       /\ h.reply.kind = (IF want.domains = {} THEN "empty" ELSE "list")

\* /list of a list of several domains that were added out of order
C5_Witness ==
  /\ h.pc = "replying" /\ h.kind = "list" /\ Len(h.reply.lines) >= 2
  /\ prev.kind = "add" /\ prev.cands = <<TokA>>

\* C6: no stored domain starts with http:// or https://, none begins or ends
\* with "/"
C6_StoredDomainsClean ==
  \A d \in Range(Stored.domains) :
    /\ ~StartsWith(d, HttpScheme) /\ ~StartsWith(d, HttpsScheme)
    /\ d # <<>> => Head(d) # "/" /\ d[Len(d)] # "/"

\* C7: normalising a normalised token changes nothing
C7_NormalizeIdempotent == npc = "twice" => nz = ny

\* the count a Bulk Report gives under a heading: a line is written only for a
\* count above zero
Reported(reply, name) ==
  IF \E k \in 1..Len(reply.parts) : reply.parts[k].part = name
  THEN (CHOOSE q \in Range(reply.parts) : q.part = name).n
  ELSE 0

\* C8: /add persists D \cup C and reports |C \ D| added, |C \cap D| skipped;
\* /remove persists D \ C and reports |C \cap D| removed, |C \ D| not found;
\* a /remove of domains not on the list is answered and leaves the file as it is
C8_AddRemovePartition ==
  h.pc = "replying" /\ h.cands # <<>> =>
    LET D == Range(load_data(h.before).domains)
        C == Range(h.cands)
    IN /\ h.kind = "add" =>
            /\ Range(Stored.domains) = D \cup C
            /\ h.reply.kind = "add"
            /\ Reported(h.reply, "added") = Cardinality(C \ D)
            /\ Reported(h.reply, "skipped") = Cardinality(C \cap D)
       /\ h.kind = "remove" =>
            /\ Range(Stored.domains) = D \ C
            /\ h.reply.kind = "remove"
            /\ Reported(h.reply, "removed") = Cardinality(C \cap D)
            /\ Reported(h.reply, "notfound") = Cardinality(C \ D)
            /\ C \cap D = {} => file = h.before

\* a /remove of a domain on the list and one that is not, with others left
C8_Witness ==
  /\ h.pc = "replying" /\ h.kind = "remove"
  /\ Reported(h.reply, "removed") = 1 /\ Reported(h.reply, "notfound") = 1
  /\ Stored.domains # <<>>

\* C9: an /add sent again right after itself reports every domain as already
\* on the list and leaves the persisted record as the first /add left it
C9_AddTwice ==
  h.pc = "replying" /\ h.kind = "add" /\ h.retx =>
    /\ file = h.before
    /\ h.reply.parts = <<Part("skipped", Cardinality(Range(h.cands)))>>

\* the second of two equal /add commands, with a target chat set
C9_Witness ==
  /\ h.pc = "replying" /\ h.kind = "add" /\ h.retx
  /\ Cardinality(Range(h.cands)) = 2 /\ Stored.chat_id # None

\* C10: a cycle that found a target chat and an empty watchlist sends exactly
\* one "watchlist empty" notice to that chat and makes no remote call
C10_EmptyWatchlistNotice ==
  \A c \in Slots :
    cyc[c].pc # "free" /\ cyc[c].chat_id # None /\ cyc[c].domains = <<>> =>
      /\ cyc[c].pc \in {"sending", "done"}
      /\ cyc[c].nSent = 1 /\ cyc[c].nCalls = 0
      /\ cyc[c].msg = [kind |-> "empty", chat |-> cyc[c].chat_id, lines |-> <<>>]

\* a cycle of the job over an empty watchlist is over, with a target chat set
C10_Witness ==
  \E c \in Slots :
    /\ cyc[c].pc = "done" /\ cyc[c].origin = "job"
    /\ cyc[c].msg.kind = "empty" /\ Stored.chat_id # None /\ Stored.domains = <<>>

\* what a periodic_check call that is over has done
Outcome(c) == [msg |-> cyc[c].msg, nSent |-> cyc[c].nSent, raised |-> cyc[c].pc = "raised"]

\* C11: over the same persisted record and the same remote responses, a cycle
\* of the job and a cycle of /checknow that are both over have sent the same
\* message to the same chat (or both none)
C11_SameReportBothEntryPoints ==
  \A c, d \in Slots :
    /\ cyc[c].origin = "job" /\ cyc[c].pc \in {"done", "raised"}
    /\ cyc[d].origin = "checknow" /\ cyc[d].pc \in {"done", "raised"}
    => Outcome(c) = Outcome(d)

\* both cycles are over with a report of an error line and a BLOCKED line
C11_Witness ==
  \E c, d \in Slots :
    /\ cyc[c].origin = "job" /\ cyc[c].pc = "done"
    /\ cyc[d].origin = "checknow" /\ cyc[d].pc = "done"
    /\ cyc[c].msg.kind = "report" /\ cyc[d].msg.kind = "report"
    /\ cyc[c].msg.lines = <<[kind |-> "error", domain |-> <<"a">>],
                            [kind |-> "blocked", domain |-> <<"b">>]>>

\* C12 as stated: save_data(load_data()) leaves every persisted state, no file
\* included, exactly as it was
C12_RoundTripEveryState == spc = "saved" => file = sfile0

\* C12 amended: save_data(load_data()) leaves a file that save_data wrote
\* exactly as it was; where there was no file, or one that is not JSON or not
\* readable, it writes a file with the default record; in each case load_data
\* gives afterwards the record it gave before
C12_RoundTripSavedFile ==
  spc = "saved" =>
    /\ sfile0.kind = "json" => file = sfile0
    /\ file.kind = "json"
    /\ load_data(file) = load_data(sfile0)

\* the round trip of a file with a target chat and several domains
C12_Witness ==
  /\ spc = "saved" /\ sfile0.kind = "json"
  /\ sfile0.chat_id # None /\ Len(sfile0.domains) >= 3

\* C15: load_data does not raise, and where there is no file or the file is
\* unreadable, not JSON or no record, it gives the default record
C15_LoadNeverRaises ==
  spc \in {"loaded", "saved"} =>
    /\ ~sdata.raised
    /\ sfile0.kind # "json" => sdata.chat_id = None /\ sdata.domains = <<>>

\* C13: an /add or /remove with no argument, or whose candidates are all empty
\* after normalisation, is answered with the usage message and leaves the
\* persisted record as it was; the empty string is never stored as a domain
C13_EmptyCandidatesUsage ==
  /\ <<>> \notin Range(Stored.domains)
  /\ (/\ h.pc = "replying" /\ h.kind \in {"add", "remove"}
      /\ \A k \in 1..Len(h.cands) : h.cands[k] = <<>>)
     => h.reply = Usage /\ file = h.before

\* the failure paths of a remote check: no token, no response (timeout,
\* connection error), a non-success HTTP status, a body that is not JSON
CheckFailure(q) ==
  \/ ~q.token
  \/ q.resp.http # "ok"
  \/ q.resp.body = "notjson"

\* C14: on every failure path check_domain_status returns a dict with a
\* populated "error", and format_status_message renders it as an error line,
\* never as OK or BLOCKED
C14_FailureGivesError ==
  CheckFailure(rq) =>
    /\ rq.pc \in {"returned", "formatted"} =>
         rq.result.shape = "dict" /\ rq.result.error
    /\ rq.pc = "formatted" => rq.line.kind = "error"

\* C16: when the write of save_data fails during /start, /add or /remove, the
\* persisted record afterwards is the record as it was before the request,
\* and a later load returns it
C16_FailedWriteKeepsRecord ==
  (h.pc = "replying" /\ h.kind \in {"start", "add", "remove"} /\ h.wfail)
    => load_data(file) = load_data(h.before)

\* C17 as stated: with the remote-API token missing (and the Telegram token
\* set) the bot still runs, so that the list commands are handled
C17_RunsWithoutApiToken ==
  (app # "boot" /\ env.telegram /\ ~env.indiwtf) => app = "running"

\* C17 amended: with either token missing main() returns before the
\* application is built: the bot never runs, no command is handled and no
\* check cycle starts; a running bot has the remote-API token, so the guard
\* of check_domain_status never answers for a request
C17_MissingTokenNoBot ==
  /\ (~env.telegram \/ ~env.indiwtf) =>
       /\ app # "running"
       /\ h = IdleHandler /\ nCmds = 0 /\ file = NoFile
       /\ \A c \in Slots : cyc[c] = FreeSlot
  /\ app = "running" => env.indiwtf

\* main() has returned for want of the remote-API token alone
C17_Witness == app = "exited" /\ env.telegram /\ ~env.indiwtf

\* C18: a check cycle sends only to the chat of the most recent /start that
\* was handled before the cycle loaded the record; a cycle started when no
\* /start was ever handled sends nothing and makes no remote call
C18_ReportsToLatestStart ==
  \A c \in Slots : cyc[c].pc # "free" =>
    LET r == cyc[c]
    IN /\ r.nSent > 0 => r.msg.kind # "none"
       /\ r.msg.kind # "none" => r.msg.chat = r.start.chat_id /\ r.msg.chat # None
       /\ r.start.chat_id = None =>
            r.pc = "done" /\ r.nSent = 0 /\ r.nCalls = 0 /\ r.msg = NoMsg

\* /start from chat2 is being answered after an earlier /start from chat1, and
\* a cycle that loaded the record since has its message addressed to chat2
C18_Witness ==
  /\ h.pc = "replying" /\ h.kind = "start" /\ h.before.chat_id = "chat1"
  /\ \E c \in Slots : cyc[c].msg.kind # "none" /\ cyc[c].msg.chat = "chat2"

\* C20: a check cycle works on the record it loaded at its start: whatever
\* /add, /remove or /start is handled while it is suspended, the domains it
\* checks and reports and the chat it sends to are those of its start
C20_CycleKeepsSnapshot ==
  \A c \in Slots : (cyc[c].pc # "free" /\ cyc[c].start.chat_id # None) =>
    LET r == cyc[c]
    IN /\ r.chat_id = r.start.chat_id
       /\ Range(r.domains) = r.start.domains
       /\ \A k \in 1..Len(r.lines) : r.lines[k].domain = r.domains[k]
       /\ r.msg.kind # "none" => r.msg.chat = r.start.chat_id
       /\ r.msg.kind = "report" => Range(LineDomains(r.msg.lines)) = r.start.domains

\* a cycle has sent its report, and the report is not that of the record as
\* it is now: a command changed the record while the cycle was suspended
C20_Witness ==
  \E c \in Slots :
    /\ cyc[c].pc \in {"sending", "done"} /\ cyc[c].msg.kind = "report"
    /\ \/ Range(LineDomains(cyc[c].msg.lines)) # Range(Stored.domains)
       \/ cyc[c].msg.chat # Stored.chat_id

\* a handler is suspended in `await update.message.reply_text(...)`
ReplyInFlight == h.pc \in {"replying", "ack"}

\* C19: every command that is received gets a reply: the step that takes the
\* command awaits a reply_text before anything else can suspend or end the
\* handler, and every reply_text awaited resumes
C19_EveryCommandReplied ==
  /\ [][nCmds' # nCmds =>
          h'.pc # "idle" /\ h'.nReplies >= 1 /\ h'.reply.kind # "none"]_vars
  /\ ReplyInFlight ~> ~ReplyInFlight

\* the third command, a /checknow after a /check, has had its reply and is
\* waiting for its cycle
C19_Witness ==
  /\ nCmds = MaxCmds /\ prev.kind = "check"
  /\ h.kind = "checknow" /\ h.pc = "in_cycle" /\ h.nReplies = 1

====
